---- MODULE Spec2Model ----
(***************************************************************************)
(* Model of backend/main.py: a Flask gateway with a secret-loading startup *)
(* block and five routes.  Module-level names of main.py are the state;    *)
(* every view function is an action (split at its blocking upstream call   *)
(* so that requests handled by different workers interleave).              *)
(***************************************************************************)
EXTENDS Integers, Sequences, FiniteSets, TLC

VARIABLES
    startup_pc,          \* position in the module-level "Load Secrets" block
    openai_api_key,      \* module globals of main.py
    livekit_api_key,
    livekit_api_secret,
    livekit_host,
    openai_module_key,   \* the attribute openai.api_key
    pc,                  \* per worker: "idle" or blocked in the upstream call
    req,                 \* per worker: the request being / last handled
    resp,                \* per worker: the response to req, once produced
    upstream_calls,      \* per worker: upstream calls made while handling req
    upstream_args,       \* per worker: arguments of that upstream call
    upstream_result,     \* per worker: what that call returned or raised
    failed_before,       \* history: some upstream call has raised
    after_failure        \* history, per worker: req arrived after such a failure

creds == <<openai_api_key, livekit_api_key, livekit_api_secret, livekit_host,
           openai_module_key>>
workers == <<pc, req, resp, upstream_calls, upstream_args, upstream_result,
             failed_before, after_failure>>
vars == <<startup_pc, creds, workers>>

(***************************************************************************)
(* Bounds and small input sets                                             *)
(***************************************************************************)
MaxMsgs == 2

Workers == {"w1", "w2"}

None == "None"          \* Python's None
Unbound == "<unbound>"  \* a module name not assigned yet

\* contents of the secrets store, by secret id
SecretStore ==
    [id \in {"openai-api-key", "livekit-api-key", "livekit-api-secret"} |->
        CASE id = "openai-api-key" -> "sk-openai"
          [] id = "livekit-api-key" -> "lk-key"
          [] id = "livekit-api-secret" -> "lk-secret"]

get_secret(secret_id) == SecretStore[secret_id]

\* what a route's upstream call does: raise an exception, or return a payload
Errors == {"ConnectionError", "ValueError"}
Payloads(path) ==
    CASE path = "/generate-livekit-token" -> {"jwt-1"}
      [] path = "/chat" -> {"reply-1"}
      [] path = "/transcribe" -> {"transcript-1"}
      [] path = "/synthesize" -> {"mp3-a", "mp3-b"}
UpstreamOutcomes(path) == Errors \cup Payloads(path)

MsgSet == { [role |-> "user", content |-> "hi"],
            [role |-> "system", content |-> "be terse"] }

RECURSIVE SeqsUpTo(_, _)
SeqsUpTo(S, n) ==
    IF n = 0 THEN { <<>> }
    ELSE LET shorter == SeqsUpTo(S, n - 1)
         IN  shorter \cup { Append(s, x) : s \in { t \in shorter : Len(t) = n - 1 }, x \in S }

MessageLists == SeqsUpTo(MsgSet, MaxMsgs)

EmptyObject == [k \in {} |-> ""]

\* a JSON object: a function from the keys it has to their values
TokenObjects ==
    { [k \in K |-> IF k = "identity" THEN "alice" ELSE "Alice A."] :
        K \in SUBSET {"identity", "name"} }
ChatObjects == { EmptyObject } \cup { [messages |-> m] : m \in MessageLists }
SynthObjects == { EmptyObject, [text |-> ""], [text |-> "hello"] }

\* the request body as request.get_json() sees it
NoBody == [kind |-> "none", data |-> EmptyObject]
JsonBodies(objects) ==
    { NoBody,
      [kind |-> "malformed", data |-> EmptyObject],
      [kind |-> "array", data |-> EmptyObject] }
    \cup { [kind |-> "object", data |-> o] : o \in objects }

\* request.files: the multipart file parts, name -> filename
FileParts == { EmptyObject, [audio_file |-> ""], [audio_file |-> "speech.wav"] }

Methods == {"GET", "HEAD", "OPTIONS", "POST", "PUT"}
Paths == {"/", "/generate-livekit-token", "/chat", "/transcribe", "/synthesize"}

Request(m, p, j, f) == [method |-> m, path |-> p, json |-> j, files |-> f]

PostRequests(path, bodies, files) ==
    { Request("POST", path, j, f) : j \in bodies, f \in files }

Requests ==
    { Request(m, "/", NoBody, EmptyObject) : m \in Methods }
    \cup { Request("GET", p, NoBody, EmptyObject) : p \in Paths }
    \cup PostRequests("/generate-livekit-token", JsonBodies(TokenObjects), {EmptyObject})
    \cup PostRequests("/chat", JsonBodies(ChatObjects), {EmptyObject})
    \cup PostRequests("/transcribe", {NoBody}, FileParts)
    \cup PostRequests("/synthesize", JsonBodies(SynthObjects), {EmptyObject})

NoRequest == Request("GET", "<none>", NoBody, EmptyObject)
NoResponse == [status |-> 0, content_type |-> "", body |-> EmptyObject]
NoCall == [api |-> "none"]
NoResult == "<no call>"

(***************************************************************************)
(* Flask helpers                                                           *)
(***************************************************************************)
jsonify(obj, status) ==
    [status |-> status, content_type |-> "application/json", body |-> obj]

make_response(data, status, content_type) ==
    [status |-> status, content_type |-> content_type, body |-> [data |-> data]]

\* werkzeug's response to an aborted request or to an exception no handler caught
http_error(status) == make_response("<error page>", status, "text/html; charset=utf-8")

\* a test that treats only the empty string as missing
falsy_mut(x) == x = ""

\* `not x` on a global that holds None or a string
falsy(x) == x = None \/ x = ""

\* request.get_json(): depending on the installed Flask, a request without a
\* JSON body yields None, a 400 or a 415; malformed JSON is always a 400
get_json(j) ==
    CASE j.kind = "none" ->
            { [kind |-> "value", is_dict |-> FALSE, data |-> EmptyObject],
              [kind |-> "abort", status |-> 400],
              [kind |-> "abort", status |-> 415] }
      [] j.kind = "malformed" -> { [kind |-> "abort", status |-> 400] }
      [] j.kind = "array" ->
            { [kind |-> "value", is_dict |-> FALSE, data |-> EmptyObject] }
      [] j.kind = "object" ->
            { [kind |-> "value", is_dict |-> TRUE, data |-> j.data] }

\* data.get(key, default) on a dict
dict_get(data, key, default) == IF key \in DOMAIN data THEN data[key] ELSE default

\* methods a rule accepts: Flask adds HEAD to GET rules and OPTIONS to all
route_methods(path) ==
    IF path = "/" THEN {"GET", "HEAD", "OPTIONS"} ELSE {"POST", "OPTIONS"}

(***************************************************************************)
(* Startup: the "Load Secrets" block                                       *)
(***************************************************************************)
Init ==
    /\ startup_pc = "openai-api-key"
    /\ openai_api_key = Unbound
    /\ livekit_api_key = Unbound
    /\ livekit_api_secret = Unbound
    /\ livekit_host = Unbound
    /\ openai_module_key = None
    /\ pc = [w \in Workers |-> "idle"]
    /\ req = [w \in Workers |-> NoRequest]
    /\ resp = [w \in Workers |-> NoResponse]
    /\ upstream_calls = [w \in Workers |-> 0]
    /\ upstream_args = [w \in Workers |-> NoCall]
    /\ upstream_result = [w \in Workers |-> NoResult]
    /\ failed_before = FALSE
    /\ after_failure = [w \in Workers |-> FALSE]

\* one get_secret call of the try block returns
load_secret ==
    /\ startup_pc # "serving"
    /\ CASE startup_pc = "openai-api-key" ->
              /\ openai_api_key' = get_secret("openai-api-key")
              /\ livekit_host' = "YOUR_LIVEKIT_HOST_URL"
              /\ startup_pc' = "livekit-api-key"
              /\ UNCHANGED <<livekit_api_key, livekit_api_secret, openai_module_key>>
         [] startup_pc = "livekit-api-key" ->
              /\ livekit_api_key' = get_secret("livekit-api-key")
              /\ startup_pc' = "livekit-api-secret"
              /\ UNCHANGED <<openai_api_key, livekit_api_secret, livekit_host,
                             openai_module_key>>
         [] startup_pc = "livekit-api-secret" ->
              /\ livekit_api_secret' = get_secret("livekit-api-secret")
              /\ openai_module_key' = openai_api_key
              /\ startup_pc' = "serving"
              /\ UNCHANGED <<openai_api_key, livekit_api_key, livekit_host>>
    /\ UNCHANGED workers

\* an except branch that resets only the names not assigned yet
load_secrets_except_mut ==
    /\ startup_pc # "serving"
    /\ openai_api_key' = (IF openai_api_key = Unbound THEN None ELSE openai_api_key)
    /\ livekit_api_key' = (IF livekit_api_key = Unbound THEN None ELSE livekit_api_key)
    /\ livekit_api_secret' = None
    /\ livekit_host' = None
    /\ startup_pc' = "serving"
    /\ UNCHANGED <<openai_module_key, workers>>

\* one get_secret call raises: the except branch
load_secrets_except ==
    /\ startup_pc # "serving"
    /\ openai_api_key' = None
    /\ livekit_api_key' = None
    /\ livekit_api_secret' = None
    /\ livekit_host' = None
    /\ startup_pc' = "serving"
    /\ UNCHANGED <<openai_module_key, workers>>

(***************************************************************************)
(* Request handling                                                        *)
(***************************************************************************)
\* worker w takes request r: the guard shared by all view functions
accepts(w, r) ==
    /\ startup_pc = "serving"
    /\ pc[w] = "idle"
    /\ req' = [req EXCEPT ![w] = r]
    /\ after_failure' = [after_failure EXCEPT ![w] = failed_before]

\* the view function returns without calling upstream
respond(w, response) ==
    /\ resp' = [resp EXCEPT ![w] = response]
    /\ upstream_calls' = [upstream_calls EXCEPT ![w] = 0]
    /\ upstream_args' = [upstream_args EXCEPT ![w] = NoCall]
    /\ upstream_result' = [upstream_result EXCEPT ![w] = NoResult]
    /\ UNCHANGED <<pc, failed_before>>

\* the view function enters its upstream call and blocks
call_upstream(w, args) ==
    /\ pc' = [pc EXCEPT ![w] = "upstream"]
    /\ resp' = [resp EXCEPT ![w] = NoResponse]
    /\ upstream_calls' = [upstream_calls EXCEPT ![w] = 1]
    /\ upstream_args' = [upstream_args EXCEPT ![w] = args]
    /\ upstream_result' = [upstream_result EXCEPT ![w] = NoResult]
    /\ UNCHANGED failed_before

\* an except branch that puts str(e) in the response
upstream_done_mut(w, path, u, ok_response, error_response) ==
    /\ pc[w] = "upstream"
    /\ req[w].path = path
    /\ pc' = [pc EXCEPT ![w] = "idle"]
    /\ upstream_result' = [upstream_result EXCEPT ![w] = u]
    /\ resp' = [resp EXCEPT ![w] =
                  IF u \in Errors THEN jsonify([error |-> u], 500) ELSE ok_response]
    /\ failed_before' = (failed_before \/ u \in Errors)
    /\ UNCHANGED <<startup_pc, creds, req, upstream_calls, upstream_args, after_failure>>

\* the upstream call is over with outcome u: the try block returns
\* ok_response, or its except branch returns error_response
upstream_done(w, path, u, ok_response, error_response) ==
    /\ pc[w] = "upstream"
    /\ req[w].path = path
    /\ pc' = [pc EXCEPT ![w] = "idle"]
    /\ upstream_result' = [upstream_result EXCEPT ![w] = u]
    /\ resp' = [resp EXCEPT ![w] = IF u \in Errors THEN error_response ELSE ok_response]
    /\ failed_before' = (failed_before \/ u \in Errors)
    /\ UNCHANGED <<startup_pc, creds, req, upstream_calls, upstream_args, after_failure>>

\* a request whose method the matched rule does not accept
routing(w, r) ==
    /\ accepts(w, r)
    /\ r.method \notin route_methods(r.path) \/ r.method = "OPTIONS"
    /\ respond(w, IF r.method = "OPTIONS"
                  THEN make_response("", 200, "text/html; charset=utf-8")
                  ELSE http_error(405))
    /\ UNCHANGED <<startup_pc, creds>>

\* a health route that reports missing credentials
hello_mut(w, r) ==
    /\ accepts(w, r)
    /\ r.path = "/"
    /\ r.method \in {"GET", "HEAD"}
    /\ respond(w, IF openai_api_key = None
                  THEN jsonify([error |-> "OpenAI configuration missing"], 500)
                  ELSE make_response(IF r.method = "HEAD" THEN "" ELSE "Backend is running!",
                                     200, "text/html; charset=utf-8"))
    /\ UNCHANGED <<startup_pc, creds>>

hello(w, r) ==
    /\ accepts(w, r)
    /\ r.path = "/"
    /\ r.method \in {"GET", "HEAD"}
    /\ respond(w, make_response(IF r.method = "HEAD" THEN "" ELSE "Backend is running!",
                                200, "text/html; charset=utf-8"))
    /\ UNCHANGED <<startup_pc, creds>>

\* the fixed message of a route's configuration error
config_error(path) ==
    jsonify([error |-> IF path = "/generate-livekit-token"
                       THEN "LiveKit configuration missing"
                       ELSE "OpenAI configuration missing"], 500)

\* the fixed message of a route's except branch
upstream_error(path) ==
    jsonify([error |-> CASE path = "/generate-livekit-token" -> "Could not generate LiveKit token"
                         [] path = "/chat" -> "Failed to get response from OpenAI"
                         [] path = "/transcribe" -> "Failed to transcribe audio"
                         [] path = "/synthesize" -> "Failed to synthesize speech"], 500)

\* get_json() did not hand the view function a dict: it aborted, or it
\* returned None or a list, on which data.get raises AttributeError outside
\* the try block
json_rejected(got) == got.kind = "abort" \/ ~got.is_dict

json_rejection(got) ==
    IF got.kind = "abort" THEN http_error(got.status) ELSE http_error(500)

generate_token(w, r) ==
    /\ accepts(w, r)
    /\ r.path = "/generate-livekit-token"
    /\ r.method = "POST"
    /\ IF falsy(livekit_api_key) \/ falsy(livekit_api_secret)
       THEN respond(w, config_error(r.path))
       ELSE \E got \in get_json(r.json) :
              IF json_rejected(got) THEN respond(w, json_rejection(got))
              ELSE LET data == got.data
                       user_identity == dict_get(data, "identity", "default-user")
                       user_name == dict_get(data, "name", "Default User")
                   IN  call_upstream(w, [api |-> "AccessToken.to_jwt",
                                         api_key |-> livekit_api_key,
                                         api_secret |-> livekit_api_secret,
                                         identity |-> user_identity,
                                         name |-> user_name,
                                         room |-> "my-conversation-room"])
    /\ UNCHANGED <<startup_pc, creds>>

generate_token_signed(w) ==
    /\ pc[w] = "upstream"
    /\ \E jwt_token \in UpstreamOutcomes("/generate-livekit-token") :
           upstream_done(w, "/generate-livekit-token", jwt_token,
                         jsonify([identity |-> upstream_args[w].identity,
                                  token |-> jwt_token], 200),
                         upstream_error("/generate-livekit-token"))

system_prompt == "You are a helpful assistant."

\* a prepend that is skipped when the history already has a system message
full_conversation_mut(messages) ==
    IF \E i \in 1..Len(messages) : messages[i].role = "system"
    THEN messages
    ELSE <<[role |-> "system", content |-> system_prompt]>> \o messages

full_conversation(messages) ==
    <<[role |-> "system", content |-> system_prompt]>> \o messages

\* a check that was left out
not_messages_mut(messages) == FALSE

\* `not messages` on the list data.get('messages', []) returned
not_messages(messages) == messages = <<>>

chat_endpoint(w, r) ==
    /\ accepts(w, r)
    /\ r.path = "/chat"
    /\ r.method = "POST"
    /\ IF falsy(openai_api_key)
       THEN respond(w, config_error(r.path))
       ELSE \E got \in get_json(r.json) :
              IF json_rejected(got) THEN respond(w, json_rejection(got))
              ELSE LET data == got.data
                       messages == dict_get(data, "messages", <<>>)
                   IN  IF not_messages(messages)
                       THEN respond(w, jsonify([error |-> "No messages provided"], 400))
                       ELSE call_upstream(w, [api |-> "chat.completions.create",
                                              api_key |-> openai_api_key,
                                              model |-> "gpt-4.1",
                                              messages |-> full_conversation(messages)])
    /\ UNCHANGED <<startup_pc, creds>>

\* an except branch that also drops the key it could not use
chat_endpoint_replied_mut(w) ==
    /\ pc[w] = "upstream"
    /\ req[w].path = "/chat"
    /\ \E assistant_reply \in UpstreamOutcomes("/chat") :
        /\ pc' = [pc EXCEPT ![w] = "idle"]
        /\ upstream_result' = [upstream_result EXCEPT ![w] = assistant_reply]
        /\ resp' = [resp EXCEPT ![w] =
                      IF assistant_reply \in Errors THEN upstream_error("/chat")
                      ELSE jsonify([reply |-> assistant_reply], 200)]
        /\ openai_api_key' = (IF assistant_reply \in Errors THEN None ELSE openai_api_key)
        /\ failed_before' = (failed_before \/ assistant_reply \in Errors)
    /\ UNCHANGED <<startup_pc, livekit_api_key, livekit_api_secret, livekit_host,
                   openai_module_key, req, upstream_calls, upstream_args, after_failure>>

chat_endpoint_replied(w) ==
    /\ pc[w] = "upstream"
    /\ \E assistant_reply \in UpstreamOutcomes("/chat") :
           upstream_done(w, "/chat", assistant_reply,
                         jsonify([reply |-> assistant_reply], 200),
                         upstream_error("/chat"))

\* the checks on request.files without the one on the filename
transcribe_rejects_mut(files) ==
    IF "audio_file" \notin DOMAIN files THEN "No audio file part" ELSE ""

\* the two checks on request.files before the try block
transcribe_rejects(files) ==
    IF "audio_file" \notin DOMAIN files THEN "No audio file part"
    ELSE IF files["audio_file"] = "" THEN "No selected file"
    ELSE ""

transcribe_endpoint(w, r) ==
    /\ accepts(w, r)
    /\ r.path = "/transcribe"
    /\ r.method = "POST"
    /\ IF falsy(openai_api_key)
       THEN respond(w, config_error(r.path))
       ELSE IF transcribe_rejects(r.files) # ""
       THEN respond(w, jsonify([error |-> transcribe_rejects(r.files)], 400))
       ELSE call_upstream(w, [api |-> "audio.transcriptions.create",
                              api_key |-> openai_api_key,
                              model |-> "gpt-4o-mini-transcribe",
                              filename |-> r.files["audio_file"]])
    /\ UNCHANGED <<startup_pc, creds>>

transcribe_endpoint_transcribed(w) ==
    /\ pc[w] = "upstream"
    /\ \E transcription \in UpstreamOutcomes("/transcribe") :
           upstream_done(w, "/transcribe", transcription,
                         jsonify([text |-> transcription], 200),
                         upstream_error("/transcribe"))

synthesize_endpoint(w, r) ==
    /\ accepts(w, r)
    /\ r.path = "/synthesize"
    /\ r.method = "POST"
    /\ IF falsy(openai_api_key)
       THEN respond(w, config_error(r.path))
       ELSE \E got \in get_json(r.json) :
              IF json_rejected(got) THEN respond(w, json_rejection(got))
              ELSE LET data == got.data
                       text_to_speak == dict_get(data, "text", None)
                   IN  IF falsy(text_to_speak)
                       THEN respond(w, jsonify([error |-> "No text provided"], 400))
                       ELSE call_upstream(w, [api |-> "audio.speech.create",
                                              api_key |-> openai_api_key,
                                              model |-> "gpt-4o-mini-tts",
                                              voice |-> "alloy",
                                              input |-> text_to_speak,
                                              response_format |-> "mp3"])
    /\ UNCHANGED <<startup_pc, creds>>

\* make_response(response.content) with Flask's default Content-Type left in place
synthesize_audio_mut(audio_content) ==
    make_response(audio_content, 200, "text/html; charset=utf-8")

\* make_response(response.content) with the Content-Type header replaced
synthesize_audio(audio_content) == make_response(audio_content, 200, "audio/mpeg")

synthesize_endpoint_spoken(w) ==
    /\ pc[w] = "upstream"
    /\ \E audio_content \in UpstreamOutcomes("/synthesize") :
           upstream_done(w, "/synthesize", audio_content,
                         synthesize_audio(audio_content),
                         upstream_error("/synthesize"))

Next ==
    \/ load_secret
    \/ load_secrets_except
    \/ \E w \in Workers, r \in Requests : routing(w, r)
    \/ \E w \in Workers, r \in Requests : hello(w, r)
    \/ \E w \in Workers, r \in Requests : generate_token(w, r)
    \/ \E w \in Workers : generate_token_signed(w)
    \/ \E w \in Workers, r \in Requests : chat_endpoint(w, r)
    \/ \E w \in Workers : chat_endpoint_replied(w)
    \/ \E w \in Workers, r \in Requests : transcribe_endpoint(w, r)
    \/ \E w \in Workers : transcribe_endpoint_transcribed(w)
    \/ \E w \in Workers, r \in Requests : synthesize_endpoint(w, r)
    \/ \E w \in Workers : synthesize_endpoint_spoken(w)

Spec == Init /\ [][Next]_vars

(***************************************************************************)
(* Properties                                                              *)
(***************************************************************************)
CredentialRoutes == Paths \ {"/"}

\* worker w took a POST to path (and is handling it or has answered it)
Posted(w, path) == req[w].method = "POST" /\ req[w].path = path

\* the response to req[w] has been produced
Responded(w) == pc[w] = "idle" /\ resp[w] # NoResponse

\* a credential the route needs is None
CredentialAbsent(path) ==
    IF path = "/generate-livekit-token"
    THEN livekit_api_key = None \/ livekit_api_secret = None
    ELSE openai_api_key = None

\* the body is a JSON object that lacks key or holds an empty value for it
ObjectWithout(w, key, empty) ==
    /\ req[w].json.kind = "object"
    /\ key \notin DOMAIN req[w].json.data \/ req[w].json.data[key] = empty

\* the body is a JSON object with a non-empty value for key
ObjectWith(w, key, empty) ==
    /\ req[w].json.kind = "object"
    /\ key \in DOMAIN req[w].json.data
    /\ req[w].json.data[key] # empty

HealthResponse ==
    [status |-> 200, content_type |-> "text/html; charset=utf-8",
     body |-> [data |-> "Backend is running!"]]

\* C1: a POST to a credential-dependent route whose credential is absent is
\* answered 500 with the route's configuration-error message, whatever its
\* body, and no upstream call is made while handling it.
C1_ConfigErrorFirst ==
    \A w \in Workers : \A path \in CredentialRoutes :
        (Posted(w, path) /\ CredentialAbsent(path)) =>
            /\ Responded(w)
            /\ resp[w].status = 500
            /\ resp[w].body =
                 [error |-> IF path = "/generate-livekit-token"
                            THEN "LiveKit configuration missing"
                            ELSE "OpenAI configuration missing"]
            /\ upstream_calls[w] = 0
            /\ upstream_args[w] = NoCall

\* a /chat request with no messages, which would be a 400, gets the 500, and
\* so does a /synthesize request with a valid body
C1_Witness ==
    /\ openai_api_key = None
    /\ Posted("w1", "/chat") /\ ObjectWithout("w1", "messages", <<>>)
    /\ resp["w1"].status = 500
    /\ Posted("w2", "/synthesize") /\ ObjectWith("w2", "text", "")
    /\ resp["w2"].status = 500

\* C2: once startup is over the credentials are all-or-nothing: after a
\* failed fetch (the except branch ran: livekit_host is None) all three are
\* None, otherwise all three hold the store's values; and the server serves:
\* a GET / it has taken is answered with the health string.
C2_AllOrNothing ==
    startup_pc = "serving" =>
        /\ livekit_host = None =>
              /\ openai_api_key = None
              /\ livekit_api_key = None
              /\ livekit_api_secret = None
        /\ livekit_host # None =>
              /\ openai_api_key = SecretStore["openai-api-key"]
              /\ livekit_api_key = SecretStore["livekit-api-key"]
              /\ livekit_api_secret = SecretStore["livekit-api-secret"]
        /\ \A w \in Workers :
              (req[w].path = "/" /\ req[w].method = "GET") => resp[w] = HealthResponse

\* startup failed, and GET / is answered all the same
C2_Witness ==
    /\ startup_pc = "serving"
    /\ openai_api_key = None /\ livekit_api_key = None /\ livekit_api_secret = None
    /\ req["w1"].path = "/" /\ req["w1"].method = "GET"
    /\ resp["w1"] = HealthResponse

C4_EmptyAlways400 ==
    \A w \in Workers :
        (Posted(w, "/chat") /\ ObjectWithout(w, "messages", <<>>)) =>
            /\ Responded(w)
            /\ resp[w].status = 400
            /\ upstream_calls[w] = 0

\* C4, amended: the same when the AI provider key is present.
C4_Empty400WithKey ==
    \A w \in Workers :
        (Posted(w, "/chat") /\ openai_api_key # None
            /\ ObjectWithout(w, "messages", <<>>)) =>
            /\ Responded(w)
            /\ resp[w] = jsonify([error |-> "No messages provided"], 400)
            /\ upstream_calls[w] = 0
            /\ upstream_args[w] = NoCall

\* both an empty list and a missing field have been answered 400
C4_Witness ==
    /\ openai_api_key # None
    /\ Posted("w1", "/chat") /\ req["w1"].json = [kind |-> "object", data |-> EmptyObject]
    /\ resp["w1"].status = 400
    /\ Posted("w2", "/chat")
    /\ req["w2"].json = [kind |-> "object", data |-> [messages |-> <<>>]]
    /\ resp["w2"].status = 400

\* C5: a POST /generate-livekit-token without a body, with both platform
\* credentials present and no signing error, is answered 200 with identity
\* "default-user"; and a JSON object that omits identity or name gets the
\* default of each independently.
C5_NoBodyDefaults ==
    \A w \in Workers :
        (Posted(w, "/generate-livekit-token") /\ ~CredentialAbsent("/generate-livekit-token")
            /\ pc[w] = "idle" /\ upstream_result[w] \notin Errors) =>
            /\ req[w].json.kind = "none" =>
                  /\ resp[w].status = 200
                  /\ upstream_args[w] # NoCall
                  /\ resp[w].body = [identity |-> "default-user",
                                     token |-> upstream_result[w]]
            /\ req[w].json.kind = "object" =>
                  /\ resp[w].status = 200
                  /\ upstream_args[w].identity =
                       dict_get(req[w].json.data, "identity", "default-user")
                  /\ upstream_args[w].name =
                       dict_get(req[w].json.data, "name", "Default User")

\* C6: when a route's upstream call raises, the response is the route's fixed
\* 500, whatever was raised; when it returns, the response is a 200, also for
\* a request that arrived after an earlier upstream failure.
C6_UpstreamFailure ==
    \A w \in Workers :
        (pc[w] = "idle" /\ upstream_calls[w] = 1) =>
            IF upstream_result[w] \in Errors
            THEN resp[w] =
                   jsonify([error |->
                       CASE req[w].path = "/generate-livekit-token" ->
                                "Could not generate LiveKit token"
                         [] req[w].path = "/chat" -> "Failed to get response from OpenAI"
                         [] req[w].path = "/transcribe" -> "Failed to transcribe audio"
                         [] req[w].path = "/synthesize" -> "Failed to synthesize speech"],
                       500)
            ELSE resp[w].status = 200

\* a request that arrived after a failure was answered 200, and one whose
\* upstream call raised ValueError was answered 500
C6_Witness ==
    /\ after_failure["w1"] /\ pc["w1"] = "idle" /\ upstream_calls["w1"] = 1
    /\ resp["w1"].status = 200
    /\ pc["w2"] = "idle" /\ upstream_result["w2"] = "ValueError"
    /\ resp["w2"].status = 500

\* C7, as stated: every request to / is answered 200 with the health string,
\* whatever its method (read with HEAD and OPTIONS, whose responses carry no
\* body, held to the status alone).
C7_AnyMethodHealth ==
    \A w \in Workers :
        (req[w].path = "/" /\ startup_pc = "serving") =>
            /\ resp[w].status = 200
            /\ req[w].method \notin {"HEAD", "OPTIONS"} => resp[w] = HealthResponse

\* C7, amended: every GET / is answered 200 with the health string, with or
\* without credentials.
C7_GetHealth ==
    \A w \in Workers :
        (req[w].path = "/" /\ req[w].method = "GET") =>
            /\ Responded(w)
            /\ resp[w].status = 200
            /\ resp[w].body = [data |-> "Backend is running!"]
            /\ upstream_calls[w] = 0

\* GET / answered once without credentials
C7_Witness ==
    /\ openai_api_key = None /\ livekit_api_key = None
    /\ req["w2"].path = "/" /\ req["w2"].method = "GET"
    /\ resp["w2"].status = 200

\* C8: a POST /synthesize with the key present: an empty or missing text is
\* answered 400 with no upstream call; a non-empty text whose upstream call
\* returned is answered 200, audio/mpeg, with the returned payload as body.
C8_Synthesize ==
    \A w \in Workers :
        (Posted(w, "/synthesize") /\ openai_api_key # None) =>
            /\ ObjectWithout(w, "text", "") =>
                  /\ Responded(w)
                  /\ resp[w].status = 400
                  /\ upstream_calls[w] = 0
            /\ (ObjectWith(w, "text", "") /\ pc[w] = "idle"
                    /\ upstream_result[w] \notin Errors) =>
                  /\ upstream_calls[w] = 1
                  /\ upstream_args[w].input = req[w].json.data["text"]
                  /\ resp[w].status = 200
                  /\ resp[w].content_type = "audio/mpeg"
                  /\ resp[w].body = [data |-> upstream_result[w]]

\* two syntheses that returned different payloads, each answered with its own
C8_Witness ==
    /\ Posted("w1", "/synthesize") /\ Posted("w2", "/synthesize")
    /\ upstream_result["w1"] = "mp3-a" /\ resp["w1"].body = [data |-> "mp3-a"]
    /\ upstream_result["w2"] = "mp3-b" /\ resp["w2"].body = [data |-> "mp3-b"]
    /\ resp["w1"].content_type = "audio/mpeg"

\* C9, as stated: a POST /transcribe without an audio_file part is answered
\* 400 {error: "No audio file part"}, one with an empty filename 400, and
\* neither makes an upstream call.
C9_NoFile400 ==
    \A w \in Workers :
        Posted(w, "/transcribe") =>
            /\ "audio_file" \notin DOMAIN req[w].files =>
                  /\ resp[w] = jsonify([error |-> "No audio file part"], 400)
                  /\ upstream_calls[w] = 0
            /\ req[w].files = [audio_file |-> ""] =>
                  /\ resp[w].status = 400
                  /\ upstream_calls[w] = 0

\* C9, amended: the same when the AI provider key is present.
C9_NoFile400WithKey ==
    \A w \in Workers :
        (Posted(w, "/transcribe") /\ openai_api_key # None) =>
            /\ "audio_file" \notin DOMAIN req[w].files =>
                  /\ resp[w] = jsonify([error |-> "No audio file part"], 400)
                  /\ upstream_calls[w] = 0
            /\ req[w].files = [audio_file |-> ""] =>
                  /\ resp[w].status = 400
                  /\ upstream_calls[w] = 0

\* one request without the part and one with an empty filename, both 400
C9_Witness ==
    /\ openai_api_key # None
    /\ Posted("w1", "/transcribe") /\ req["w1"].files = EmptyObject
    /\ resp["w1"].status = 400
    /\ Posted("w2", "/transcribe") /\ req["w2"].files = [audio_file |-> ""]
    /\ resp["w2"].status = 400

\* C10: once serving, no step of any handler, in any interleaving, changes
\* the credentials or the startup position; and two identical /chat requests
\* send the upstream the same messages.
C10_NoServerState ==
    /\ [][startup_pc = "serving" => (creds' = creds /\ startup_pc' = startup_pc)]_vars
    /\ [](\A w1, w2 \in Workers :
            (Posted(w1, "/chat") /\ req[w1] = req[w2]
                /\ upstream_calls[w1] = 1 /\ upstream_calls[w2] = 1) =>
                upstream_args[w1] = upstream_args[w2])

\* the same /chat request handled twice, the second time after the first
\* had failed upstream
C10_Witness ==
    /\ Posted("w1", "/chat") /\ req["w1"] = req["w2"]
    /\ pc["w1"] = "idle" /\ upstream_result["w1"] \in Errors
    /\ after_failure["w2"] /\ upstream_calls["w2"] = 1
    /\ upstream_args["w2"] = upstream_args["w1"]
    /\ openai_api_key = SecretStore["openai-api-key"]

====
